---- MODULE Spec2Model ----
(***************************************************************************)
(* Virtual stock trading platform: AwsClient (src/aws_client.py), the      *)
(* signup, trade, quote, portfolio and admin routes of the Flask           *)
(* application (src/app.py), and the second trade path, buy_stock of       *)
(* src/services/trade_service.py over LocalDB (src/data/local_db.py).      *)
(*                                                                         *)
(* Money is counted in cents (the code's floats carry two decimals):       *)
(* 180.0 is 18000.  round(x, 2) is rounding of an exact quotient to the    *)
(* nearest cent, ties to even.  The binary representation error of the     *)
(* floats is not modelled.                                                 *)
(*                                                                         *)
(* A request is handled by a worker thread of the server.  The handler is  *)
(* cut into steps at the method calls of the code: api_orders up to the    *)
(* call of execute_trade, the validation, the change of the balance, and   *)
(* then _update_portfolio, update_user, the ledger write and the SNS       *)
(* publish.  The code takes no lock, so steps of two handlers interleave.  *)
(***************************************************************************)
EXTENDS Integers, Sequences, FiniteSets, TLC

\* ---------------------------------------------------------------- bounds
MaxCalls == 2          \* trade requests started in one run
MaxFaults == 1         \* ClientErrors in one run that change what is stored
QtyUnit == 200         \* order sizes are QtyUnit and 2 * QtyUnit
MaxUsers == 2          \* user ids handed out in one run

\* ------------------------------------------------------ program constants
InitialBalance == 10000000   \* initial_balance = 100000.0
PriceFloor == 100            \* max(1.0, ...)
MaxDelta == 100              \* (random.random() - 0.5) * 2.0 : -1.00 .. +1.00
PriceAAPL == 18000           \* "AAPL" ... "price": 180.0
PriceGOOG == 13500           \* "GOOG" ... "price": 135.0

Threads == {"t1", "t2"}    \* worker threads of the server
UserIds == 1..MaxUsers
Symbols == {"AAPL", "GOOG"}                \* the symbols of self._stocks
Unlisted == "IBM"                          \* a symbol self._stocks does not list
AllSymbols == Symbols \cup {Unlisted}      \* symbols a Holding can be stored under
Quantities == {QtyUnit, 2 * QtyUnit}
Deltas == {-MaxDelta, 0}    \* steps of the walk followed: the largest fall, and none

\* ------------------------------------------------------------ pure helpers
Max(a, b) == IF a >= b THEN a ELSE b

Abs(a) == IF a >= 0 THEN a ELSE -a

\* round(n / d, 2) on exact values in cents, d # 0: nearest, ties to even
RoundDiv(n, d) ==
    LET sgn == IF (n < 0) = (d < 0) THEN 1 ELSE -1
        q == Abs(n) \div Abs(d)
        r == Abs(n) % Abs(d)
        m == IF 2 * r < Abs(d) THEN q
             ELSE IF 2 * r > Abs(d) THEN q + 1
             ELSE IF q % 2 = 0 THEN q ELSE q + 1
    IN  sgn * m

\* email.lower().strip() on a string given as a sequence of characters
LowerChar(c) == CASE c = "A" -> "a" [] c = "B" -> "b" [] OTHER -> c

Lower(s) == [i \in DOMAIN s |-> LowerChar(s[i])]

RECURSIVE Strip(_)
Strip(s) ==
    IF s = << >> THEN s
    ELSE IF Head(s) = " " THEN Strip(Tail(s))
    ELSE IF s[Len(s)] = " " THEN Strip(SubSeq(s, 1, Len(s) - 1))
    ELSE s

NormalizeEmail(e) == Strip(Lower(e))

\* what request.form of /signup carries: two spellings of one address, and another
FormEmails == { <<"a">>, <<"A", " ">>, <<"b">> }

\* the addresses create_user is called with where one account is enough
RawEmails == { <<"a">>, <<"A", " ">> }
Emails == { NormalizeEmail(e) : e \in FormEmails }
Passwords == {"pw"}

\* ------------------------------------------------------------- the records
NoUser == [present |-> FALSE, email |-> << >>, password |-> "", cash_balance |-> 0]
User(e, p, c) == [present |-> TRUE, email |-> e, password |-> p, cash_balance |-> c]

NoHolding == [present |-> FALSE, quantity |-> 0, avg_buy_price |-> 0]
Holding(q, a) == [present |-> TRUE, quantity |-> q, avg_buy_price |-> a]

NoItem == [present |-> FALSE, user_id |-> 0, password |-> "", cash_balance |-> 0]
UserItem(u, p, c) == [present |-> TRUE, user_id |-> u, password |-> p, cash_balance |-> c]

Trade(id, u, s, sd, q, p, a, ts) ==
    [trade_id |-> id, user_id |-> u, symbol |-> s, side |-> sd,
     quantity |-> q, price |-> p, amount |-> a, timestamp |-> ts]

\* LocalDB: {"balance": ..., "portfolio": {symbol: quantity}}
NoLocalUser == [present |-> FALSE, balance |-> 0, portfolio |-> [s \in Symbols |-> 0]]
LocalUser(b, p) == [present |-> TRUE, balance |-> b, portfolio |-> p]

\* a row of the holdings list /api/portfolio answers with
NoRow == [present |-> FALSE, quantity |-> 0, avg_buy_price |-> 0, current_price |-> 0,
          market_value |-> 0, unrealized_pl |-> 0]
Row(q, a, c, m, pl) == [present |-> TRUE, quantity |-> q, avg_buy_price |-> a,
                        current_price |-> c, market_value |-> m, unrealized_pl |-> pl]

\* the answer of a read route: the users and the trades it lists
NoPage == [route |-> "", users |-> << >>, trades |-> << >>]
Page(r, us, ts) == [route |-> r, users |-> us, trades |-> ts]

NoReq == [uid |-> 0, symbol |-> "", side |-> "", qty |-> 0, price |-> 0]
Req(u, s, sd, q, p) == [uid |-> u, symbol |-> s, side |-> sd, qty |-> q, price |-> p]

VARIABLES
    use_aws,          \* USE_AWS, fixed at start
    users,            \* self._users: user_id -> User
    users_by_email,   \* self._users_by_email: email -> user_id (0: absent)
    portfolio,        \* self._portfolio: user_id -> symbol -> Holding
    trades,           \* self._trades: user_id -> list of Trade
    stocks,           \* self._stocks: symbol -> price
    users_table,      \* DynamoDB users table: email -> item
    portfolio_table,  \* DynamoDB portfolio table: (user_id, symbol) -> Holding
    trades_table,     \* DynamoDB trades table: items in insertion order
    next_uid,         \* number of user ids handed out (uuid4 is fresh)
    next_tid,         \* number of trade ids handed out, also the clock
    pc,               \* thread -> position in the handler
    req,              \* thread -> arguments of execute_trade
    luser,            \* thread -> the User object built from the item (use_aws)
    existing,         \* thread -> the Holding read from the portfolio map
    holding,          \* thread -> the Holding to write
    result,           \* thread -> outcome of its last request
    calls,            \* trade requests started so far
    faults,           \* ClientErrors raised so far
    wfail,            \* history: thread -> a balance or holding write of its call failed
    entry,            \* history: thread -> balance of the account when its call began
    audit,            \* history: user_id -> balance each recorded trade began with
    log,              \* history: the calls of execute_trade, in the order they began
    db,               \* LocalDB.users: user_id -> balance and portfolio
    sres,             \* what the last call of buy_stock gave its caller
    view,             \* the holdings rows of the last answer of /api/portfolio
    signed,           \* the number of requests to /signup, the answer to the last
                      \* and, if it was refused, the email of its form
    page              \* the last answer of /api/trades or /admin/dashboard

vars == << use_aws, users, users_by_email, portfolio, trades, stocks, users_table,
           portfolio_table, trades_table, next_uid, next_tid, pc, req, luser,
           existing, holding, result, calls, faults, wfail, entry, audit, log,
           db, sres, view, signed, page >>

hist == << wfail, entry, audit, log >>

mem == << users, users_by_email, portfolio, trades >>
store == << users_table, portfolio_table, trades_table >>
locals == << req, luser, existing, holding >>
aux == << db, sres, view, signed, page >>

\* ------------------------------------------------------------ the readers
\* get_user_by_id, in-memory: self._users.get(user_id)
MemUser(u) == users[u]

\* get_user_by_id, use_aws: scan of the users table for user_id
ScanUser(u) ==
    IF \E e \in Emails : users_table[e].present /\ users_table[e].user_id = u
    THEN LET e == CHOOSE e \in Emails :
                     users_table[e].present /\ users_table[e].user_id = u
         IN  User(e, users_table[e].password, users_table[e].cash_balance)
    ELSE NoUser

get_user_by_id(u) == IF use_aws THEN ScanUser(u) ELSE MemUser(u)

\* get_portfolio without a ClientError: the table if use_aws, else the map
get_portfolio(u) == IF use_aws THEN [s \in AllSymbols |-> portfolio_table[<<u, s>>]]
                    ELSE portfolio[u]

\* the trades of a user in the trades table, in insertion order
TableTrades(u) == SelectSeq(trades_table, LAMBDA t : t.user_id = u)

\* trades.sort(key=lambda t: t.timestamp, reverse=True): a stable sort, records
\* of equal timestamp keep their order
RECURSIVE SortDesc(_)
SortDesc(ts) ==
    LET RECURSIVE Insert(_, _)
        Insert(x, sorted) ==
            IF sorted = << >> THEN << x >>
            ELSE IF Head(sorted).timestamp > x.timestamp
                 THEN << Head(sorted) >> \o Insert(x, Tail(sorted))
                 ELSE << x >> \o sorted
    IN  IF ts = << >> THEN << >> ELSE Insert(Head(ts), SortDesc(Tail(ts)))

\* get_trades: if use_aws the items of the query sorted by timestamp, most
\* recent first; after a ClientError of the query, and in memory, the list
\* self._trades as it is
get_trades(u, ok) == IF use_aws /\ ok THEN SortDesc(TableTrades(u)) ELSE trades[u]

\* user.cash_balance of the User object a handler holds: the object of
\* self._users itself in memory, a copy built from the item if use_aws
UserCash(t) == IF use_aws THEN luser[t].cash_balance ELSE users[req[t].uid].cash_balance

\* the walk without the floor: price + delta
random_walk_nofloor(price, delta) == price + delta

\* _random_walk
random_walk(price, delta) == Max(PriceFloor, price + delta)

\* ------------------------------------------------------------------- Init
\* no account, no trade, empty tables
InitRest ==
    /\ use_aws \in BOOLEAN
    /\ users = [u \in UserIds |-> NoUser]
    /\ users_by_email = [e \in Emails |-> 0]
    /\ portfolio = [u \in UserIds |-> [s \in AllSymbols |-> NoHolding]]
    /\ trades = [u \in UserIds |-> << >>]
    /\ users_table = [e \in Emails |-> NoItem]
    /\ portfolio_table = [k \in UserIds \X AllSymbols |-> NoHolding]
    /\ trades_table = << >>
    /\ next_uid = 0
    /\ next_tid = 0
    /\ req = [t \in Threads |-> NoReq]
    /\ luser = [t \in Threads |-> NoUser]
    /\ existing = [t \in Threads |-> NoHolding]
    /\ holding = [t \in Threads |-> NoHolding]
    /\ result = [t \in Threads |-> ""]
    /\ wfail = [t \in Threads |-> FALSE]
    /\ entry = [t \in Threads |-> 0]
    /\ audit = [u \in UserIds |-> << >>]
    /\ log = << >>
    /\ db = [u \in UserIds |-> NoLocalUser]
    /\ sres = ""
    /\ view = [s \in AllSymbols |-> NoRow]
    /\ signed = [n |-> 0, email |-> << >>, answer |-> ""]
    /\ page = NoPage

\* and the starting prices
InitMaps ==
    /\ InitRest
    /\ stocks = [s \in Symbols |-> IF s = "AAPL" THEN PriceAAPL ELSE PriceGOOG]

\* a store that can fail
InitData == InitMaps /\ calls = 0 /\ faults = 0

\* the threaded server: every worker thread takes requests
Init == InitData /\ pc = [t \in Threads |-> "idle"]

\* requests arrive one at a time: one worker thread
InitSeq == InitData /\ pc = [t \in Threads |-> IF t = "t1" THEN "idle" ELSE "off"]

\* requests arrive one at a time, no call to the store raises and one trade
\* request is followed: the others, and the ClientErrors, are counted as spent
InitSteady ==
    /\ InitMaps /\ calls = MaxCalls - 1 /\ faults = MaxFaults
    /\ pc = [t \in Threads |-> IF t = "t1" THEN "idle" ELSE "off"]

\* ------------------------------------------------------------- the store
\* outcomes of one write to a table: TRUE, or FALSE for a ClientError
Outcomes == IF use_aws /\ faults < MaxFaults THEN {TRUE, FALSE} ELSE {TRUE}

\* outcomes of the scan of get_user_by_id
ReadOutcomes == IF use_aws THEN {TRUE, FALSE} ELSE {TRUE}

Count(ok) == faults' = IF ok THEN faults ELSE faults + 1

Finish(t, r) ==
    /\ pc' = [pc EXCEPT ![t] = "idle"]
    /\ result' = [result EXCEPT ![t] = r]
    /\ luser' = [luser EXCEPT ![t] = NoUser]
    /\ existing' = [existing EXCEPT ![t] = NoHolding]
    /\ holding' = [holding EXCEPT ![t] = NoHolding]

\* ------------------------------------------------------------ create_user
\* there is no check: a second account of the email is created
create_user_mem_nocheck(email, password) ==
    /\ ~use_aws
    /\ next_uid' = next_uid + 1
    /\ users' = [users EXCEPT ![next_uid + 1] = User(email, password, InitialBalance)]
    /\ users_by_email' = [users_by_email EXCEPT ![email] = next_uid + 1]
    /\ UNCHANGED << users_table, faults >>

\* in-memory branch of create_user
create_user_mem(email, password) ==
    /\ ~use_aws
    /\ users_by_email[email] = 0          \* else ValueError("User already exists")
    /\ next_uid' = next_uid + 1
    /\ users' = [users EXCEPT ![next_uid + 1] = User(email, password, InitialBalance)]
    /\ users_by_email' = [users_by_email EXCEPT ![email] = next_uid + 1]
    /\ UNCHANGED << users_table, faults >>

\* use_aws branch of create_user: get_item finds no item (else ValueError),
\* then put_item.  A ClientError of get_item with the code
\* ResourceNotFoundException or ValidationException is passed over; these
\* codes say that the table or the key is not usable, and then the table holds
\* no item under the key and put_item, on the same table and key, raises too.
create_user_aws(email, password) ==
    /\ use_aws
    /\ ~users_table[email].present
    /\ UNCHANGED faults
    /\ next_uid' = next_uid + 1
    /\ users_table' = [users_table EXCEPT
                          ![email] = UserItem(next_uid + 1, password, InitialBalance)]
    /\ UNCHANGED << users, users_by_email >>

create_user ==
    /\ next_uid < MaxUsers
    /\ \E raw \in RawEmails, password \in Passwords :
          \/ create_user_mem(NormalizeEmail(raw), password)
          \/ create_user_aws(NormalizeEmail(raw), password)
    /\ UNCHANGED << use_aws, aux, portfolio, trades, stocks, portfolio_table, trades_table,
                    next_tid, pc, req, luser, existing, holding, result, calls,
                    hist >>

\* the email the signup route passes on: request.form.get("email").strip().lower()
SignupForm(raw) == Lower(Strip(raw))

\* the check of create_user for an account of the email
Registered(email) == IF use_aws THEN users_table[email].present
                     ELSE users_by_email[email] # 0

\* POST /signup handled by thread t: create_user, and the flash message the
\* route answers with
signup(t) ==
    /\ pc[t] = "idle"
    /\ signed.n < MaxUsers
    /\ \E raw \in FormEmails, password \in Passwords :
          LET email == NormalizeEmail(SignupForm(raw))
          IN  \/ /\ \/ create_user_mem(email, password)
                    \/ create_user_aws(email, password)
                 /\ signed' = [n |-> signed.n + 1, email |-> << >>,
                               answer |-> "Signup successful! Welcome!"]
              \/ /\ Registered(email)
                 /\ signed' = [n |-> signed.n + 1, email |-> raw,
                               answer |-> "User already exists"]
                 /\ UNCHANGED << users, users_by_email, users_table, next_uid, faults >>
    /\ UNCHANGED << use_aws, portfolio, trades, stocks, portfolio_table, trades_table,
                    next_tid, pc, req, luser, existing, holding, result, calls,
                    hist, db, sres, view, page >>

\* ------------------------------------------------------------- api_orders
\* inputs of /api/orders that pass the check of the route
ValidOrder(symbol, side, qty) ==
    symbol # "" /\ side \in {"BUY", "SELL"} /\ qty > 0

\* execute_trade is called for the user get_user_by_id returned
Begin(t, u, symbol, side, qty, price) ==
    LET user == get_user_by_id(u)
    IN  /\ req' = [req EXCEPT ![t] = Req(u, symbol, side, qty, price)]
        /\ luser' = [luser EXCEPT ![t] = IF use_aws THEN user ELSE NoUser]
        /\ entry' = [entry EXCEPT ![t] = user.cash_balance]
        /\ wfail' = [wfail EXCEPT ![t] = FALSE]
        /\ pc' = [pc EXCEPT ![t] = "validate"]
        /\ calls' = calls + 1
        /\ log' = Append(log, Req(u, symbol, side, qty, price))
        /\ UNCHANGED << use_aws, aux, mem, store, next_uid, next_tid, existing, holding,
                        result, faults, audit >>

\* the route up to the call of execute_trade: the session's user, the check
\* of the input, get_stock (which moves the price), then execute_trade
Enter(t, u, symbol, side, qty, delta) ==
    LET price == random_walk(stocks[symbol], delta)
    IN  /\ stocks' = [stocks EXCEPT ![symbol] = price]
        /\ Begin(t, u, symbol, side, qty, price)

\* the route answers 400 or 401 before execute_trade is called
Refuse(t, r) ==
    /\ req' = [req EXCEPT ![t] = NoReq]
    /\ result' = [result EXCEPT ![t] = r]
    /\ calls' = calls + 1
    /\ UNCHANGED << use_aws, aux, mem, store, stocks, next_uid, next_tid, pc, luser,
                    existing, holding, faults, hist >>

\* inputs the route refuses: no symbol, a side that is no side, no quantity
BadOrders == { <<"", "BUY", QtyUnit>>, <<"AAPL", "HOLD", QtyUnit>>, <<"AAPL", "SELL", 0>> }

api_orders(t) ==
    /\ pc[t] = "idle"
    /\ calls < MaxCalls
    /\ \E u \in 1..next_uid :
          \/ /\ \E ok \in ReadOutcomes : ~ok \/ ~get_user_by_id(u).present
             /\ Refuse(t, "Not authenticated")     \* the scan raised, or no user
          \/ /\ get_user_by_id(u).present
             /\ \E o \in BadOrders : ~ValidOrder(o[1], o[2], o[3])
             /\ Refuse(t, "symbol, side (BUY/SELL), quantity>0 required")
          \/ /\ get_user_by_id(u).present
             /\ Refuse(t, "Invalid symbol")        \* get_stock returns None
          \/ /\ get_user_by_id(u).present
             /\ \E symbol \in Symbols, side \in {"BUY", "SELL"}, qty \in Quantities,
                   delta \in Deltas :
                   /\ ValidOrder(symbol, side, qty)
                   /\ Enter(t, u, symbol, side, qty, delta)

\* a caller of AwsClient.execute_trade other than the route: any side, any
\* quantity, and a symbol and a price of its own or those of get_stock
engine_call(t) ==
    /\ pc[t] = "idle"
    /\ calls < MaxCalls
    /\ \E u \in 1..next_uid, side \in {"BUY", "SELL", "HOLD"},
          qty \in {-QtyUnit, 0, QtyUnit} :
          /\ get_user_by_id(u).present
          /\ \/ \E symbol \in Symbols, delta \in Deltas :
                   Enter(t, u, symbol, side, qty, delta)
             \/ /\ Begin(t, u, Unlisted, side, qty, PriceGOOG)
                /\ UNCHANGED stocks

\* ---------------------------------------------------------- api_portfolio
\* stocks_map.get(h.symbol): the quote of a listed symbol, else None
HasQuote(symbol) == symbol \in Symbols

\* the row of one Holding: the price is that of the quote, 0.0 without a quote
ValueRow(h, symbol, quotes) ==
    LET current_price == IF HasQuote(symbol) THEN quotes[symbol] ELSE 0
        market_value == h.quantity * current_price
        cost == h.quantity * h.avg_buy_price
        unrealized_pl == market_value - cost
    IN  Row(h.quantity, h.avg_buy_price, RoundDiv(current_price, 1),
            RoundDiv(market_value, 1), RoundDiv(unrealized_pl, 1))

\* GET /api/portfolio handled by thread t: get_portfolio (the in-memory map
\* after a ClientError), get_all_stocks (which moves every price), the rows
api_portfolio(t) ==
    /\ pc[t] = "idle"
    /\ calls < MaxCalls
    /\ calls' = calls + 1
    /\ \E u \in 1..next_uid, ok \in ReadOutcomes, d \in [Symbols -> Deltas] :
          LET holdings == IF ok THEN get_portfolio(u) ELSE portfolio[u]
              quotes == [s \in Symbols |-> random_walk(stocks[s], d[s])]
          IN  /\ get_user_by_id(u).present
              /\ stocks' = quotes
              /\ view' = [s \in AllSymbols |->
                             IF holdings[s].present THEN ValueRow(holdings[s], s, quotes)
                             ELSE NoRow]
    /\ UNCHANGED << use_aws, mem, store, next_uid, next_tid, pc, locals, result,
                    faults, hist, db, sres, signed, page >>

\* get_trades sorts the list self._trades holds, not a copy of it
api_trades_inplace(t) ==
    /\ pc[t] = "idle"
    /\ \E u \in 1..next_uid, ok \in ReadOutcomes :
          /\ get_user_by_id(u).present
          /\ page' = Page("/api/trades", << >>, SortDesc(get_trades(u, ok)))
          /\ trades' = [trades EXCEPT ![u] = SortDesc(@)]
    /\ UNCHANGED << use_aws, users, users_by_email, portfolio, store, stocks, next_uid,
                    next_tid, pc, locals, result, calls, faults, hist, db, sres, view,
                    signed >>

\* GET /api/trades handled by thread t: get_trades of the session's user
api_trades(t) ==
    /\ pc[t] = "idle"
    /\ \E u \in 1..next_uid, ok \in ReadOutcomes :
          /\ get_user_by_id(u).present
          /\ page' = Page("/api/trades", << >>, get_trades(u, ok))
    /\ UNCHANGED << use_aws, mem, store, stocks, next_uid, next_tid, pc, locals, result,
                    calls, faults, hist, db, sres, view, signed >>

\* admin_get_all_users: the items of the scan, after a ClientError the values
\* of self._users
admin_get_all_users(ok) ==
    IF use_aws /\ ok
    THEN SelectSeq([u \in UserIds |-> ScanUser(u)], LAMBDA user : user.present)
    ELSE SelectSeq(users, LAMBDA user : user.present)

\* the lists of self._trades one after the other
RECURSIVE AllLists(_)
AllLists(n) == IF n = 0 THEN << >> ELSE AllLists(n - 1) \o trades[n]

\* admin_get_all_trades: the items of the scan, after a ClientError the lists
\* of self._trades, sorted by timestamp, most recent first
admin_get_all_trades(ok) ==
    IF use_aws /\ ok THEN SortDesc(trades_table) ELSE SortDesc(AllLists(MaxUsers))

\* GET /admin/dashboard handled by thread t
admin_dashboard(t) ==
    /\ pc[t] = "idle"
    /\ \E ok1 \in ReadOutcomes, ok2 \in ReadOutcomes :
          page' = Page("/admin/dashboard", admin_get_all_users(ok1), admin_get_all_trades(ok2))
    /\ UNCHANGED << use_aws, mem, store, stocks, next_uid, next_tid, pc, locals, result,
                    calls, faults, hist, db, sres, view, signed >>

\* GET /api/stocks/<symbol> handled by thread t: get_stock moves the price
api_stock(t) ==
    /\ pc[t] = "idle"
    /\ \E symbol \in Symbols, delta \in Deltas :
          stocks' = [stocks EXCEPT ![symbol] = random_walk(stocks[symbol], delta)]
    /\ UNCHANGED << use_aws, aux, mem, store, next_uid, next_tid, pc, locals, result,
                    calls, faults, hist >>

\* GET /api/stocks handled by thread t: get_all_stocks moves every price
api_stocks(t) ==
    /\ pc[t] = "idle"
    /\ \E d \in [Symbols -> Deltas] :
          stocks' = [s \in Symbols |-> random_walk(stocks[s], d[s])]
    /\ UNCHANGED << use_aws, aux, mem, store, next_uid, next_tid, pc, locals, result,
                    calls, faults, hist >>

\* ---------------------------------------------------------- execute_trade
Amount(t) == req[t].price * req[t].qty

\* the check compares the balance with the price of one share
ShortOfCash_price(t) == UserCash(t) < req[t].price

\* the check compares the balance with the quantity
ShortOfCash_qty(t) == UserCash(t) < req[t].qty

\* BUY: the check of the balance
ShortOfCash(t) == UserCash(t) < Amount(t)

\* the comparison of the quantities is written the wrong way round
ShortOfShares_inverted(h, qty) == ~h.present \/ h.quantity > qty

\* SELL: the check of the holding read from the portfolio map
ShortOfShares(h, qty) == ~h.present \/ h.quantity < qty

\* the first lines of execute_trade, up to the raise or to the first mutation
validate(t) ==
    /\ pc[t] = "validate"
    /\ LET h == portfolio[req[t].uid][req[t].symbol]
       IN  CASE req[t].side = "BUY" ->
                  IF ShortOfCash(t)
                  THEN Finish(t, "Insufficient cash balance")
                  ELSE /\ pc' = [pc EXCEPT ![t] = "balance"]
                       /\ UNCHANGED << result, luser, existing, holding >>
             [] req[t].side = "SELL" ->
                  IF ShortOfShares(h, req[t].qty)
                  THEN Finish(t, "Insufficient holdings")
                  ELSE /\ pc' = [pc EXCEPT ![t] = "balance"]
                       /\ existing' = [existing EXCEPT ![t] = h]
                       /\ UNCHANGED << result, luser, holding >>
             [] OTHER -> Finish(t, "side must be BUY or SELL")
    /\ UNCHANGED << use_aws, aux, mem, store, stocks, next_uid, next_tid, req, calls,
                    faults, hist >>

\* user.cash_balance -= amount / += amount, on the object the handler holds
SetCash(t, c) ==
    IF use_aws
    THEN luser' = [luser EXCEPT ![t].cash_balance = c] /\ UNCHANGED users
    ELSE users' = [users EXCEPT ![req[t].uid].cash_balance = c] /\ UNCHANGED luser

\* the average of the two prices, not weighted by cost
BuyHolding_naive(h, qty, price) ==
    IF h.present
    THEN Holding(h.quantity + qty, RoundDiv(h.avg_buy_price + price, 2))
    ELSE Holding(qty, price)

\* a BUY onto an existing Holding keeps its avg_buy_price
BuyHolding_keep(h, qty, price) ==
    IF h.present THEN Holding(h.quantity + qty, h.avg_buy_price)
    ELSE Holding(qty, price)

\* the Holding a BUY writes
BuyHolding(h, qty, price) ==
    IF h.present
    THEN Holding(h.quantity + qty,
                 RoundDiv(h.quantity * h.avg_buy_price + price * qty, h.quantity + qty))
    ELSE Holding(qty, price)

\* a SELL of the whole position writes a Holding of quantity 0
SellHolding_nodelete(h, qty) == Holding(h.quantity - qty, h.avg_buy_price)

\* the cost of the whole position is kept on the shares that remain
SellHolding_rebased(h, qty) ==
    IF h.quantity - qty = 0 THEN NoHolding
    ELSE Holding(h.quantity - qty,
                 RoundDiv(h.quantity * h.avg_buy_price, h.quantity - qty))

\* the Holding a SELL writes; NoHolding stands for the delete
SellHolding(h, qty) ==
    IF h.quantity - qty = 0 THEN NoHolding
    ELSE Holding(h.quantity - qty, h.avg_buy_price)

\* the balance changes and the new Holding is computed
balance(t) ==
    /\ pc[t] = "balance"
    /\ LET h == portfolio[req[t].uid][req[t].symbol]
       IN  IF req[t].side = "BUY"
           THEN /\ SetCash(t, UserCash(t) - Amount(t))
                /\ IF h.present /\ h.quantity + req[t].qty = 0
                   THEN /\ pc' = [pc EXCEPT ![t] = "idle"]   \* ZeroDivisionError
                        /\ result' = [result EXCEPT ![t] = "ZeroDivisionError"]
                        /\ UNCHANGED << existing, holding >>
                   ELSE /\ pc' = [pc EXCEPT ![t] = "update_portfolio"]
                        /\ existing' = [existing EXCEPT ![t] = h]
                        /\ holding' = [holding EXCEPT
                                          ![t] = BuyHolding(h, req[t].qty, req[t].price)]
                        /\ UNCHANGED result
           ELSE /\ SetCash(t, UserCash(t) + Amount(t))
                /\ pc' = [pc EXCEPT ![t] = "update_portfolio"]
                /\ holding' = [holding EXCEPT ![t] = SellHolding(existing[t], req[t].qty)]
                /\ UNCHANGED << existing, result >>
    /\ UNCHANGED << use_aws, aux, users_by_email, portfolio, trades, store, stocks, next_uid,
                    next_tid, req, calls, faults, hist >>

\* _get_user_portfolio_map gives every user the same dict: the Holding of
\* the symbol is written for every user
update_portfolio_shared(t) ==
    /\ pc[t] = "update_portfolio"
    /\ \E ok \in Outcomes :
          /\ Count(ok)
          /\ wfail' = [wfail EXCEPT ![t] = wfail[t] \/ ~ok]
          /\ portfolio_table' =
                IF use_aws /\ ok
                THEN [portfolio_table EXCEPT ![<<req[t].uid, req[t].symbol>>] = holding[t]]
                ELSE portfolio_table
    /\ portfolio' = [v \in UserIds |-> [portfolio[v] EXCEPT ![req[t].symbol] = holding[t]]]
    /\ pc' = [pc EXCEPT ![t] = "update_user"]
    /\ UNCHANGED << use_aws, aux, users, users_by_email, trades, stocks, users_table,
                    trades_table, next_uid, next_tid, locals, result, calls, entry, audit, log >>

\* _update_portfolio: the table (a ClientError is passed over), then the map
update_portfolio(t) ==
    /\ pc[t] = "update_portfolio"
    /\ \E ok \in Outcomes :
          /\ Count(ok)
          /\ wfail' = [wfail EXCEPT ![t] = wfail[t] \/ ~ok]
          /\ portfolio_table' =
                IF use_aws /\ ok
                THEN [portfolio_table EXCEPT ![<<req[t].uid, req[t].symbol>>] = holding[t]]
                ELSE portfolio_table
    /\ portfolio' = [portfolio EXCEPT ![req[t].uid][req[t].symbol] = holding[t]]
    /\ pc' = [pc EXCEPT ![t] = "update_user"]
    /\ UNCHANGED << use_aws, aux, users, users_by_email, trades, stocks, users_table,
                    trades_table, next_uid, next_tid, locals, result, calls, entry, audit, log >>

\* the User object the handler holds
UserObject(t) == IF use_aws THEN luser[t] ELSE users[req[t].uid]

\* update_user: update_item on the user's email (a ClientError is passed
\* over), then the maps
update_user(t) ==
    /\ pc[t] = "update_user"
    /\ LET user == UserObject(t)
       IN  /\ \E ok \in Outcomes :
                 /\ Count(ok)
                 /\ wfail' = [wfail EXCEPT ![t] = wfail[t] \/ ~ok]
                 /\ users_table' =
                       IF use_aws /\ ok
                       THEN [users_table EXCEPT
                                ![user.email].cash_balance = user.cash_balance]
                       ELSE users_table
           /\ users' = [users EXCEPT ![req[t].uid] = user]
           /\ users_by_email' = [users_by_email EXCEPT ![user.email] = req[t].uid]
    /\ pc' = [pc EXCEPT ![t] = "save_trade"]
    /\ UNCHANGED << use_aws, aux, portfolio, trades, stocks, portfolio_table, trades_table,
                    next_uid, next_tid, locals, result, calls, entry, audit, log >>

\* the Trade record: price and amount rounded to cents, a fresh id, the time
NewTrade(t) ==
    Trade(next_tid + 1, req[t].uid, req[t].symbol, req[t].side, req[t].qty,
          req[t].price, Amount(t), next_tid + 1)

\* the ledger: put_item (a ClientError is passed over), then the list
save_trade(t) ==
    /\ pc[t] = "save_trade"
    /\ \E ok \in Outcomes :
          /\ Count(ok)
          /\ trades_table' = IF use_aws /\ ok THEN Append(trades_table, NewTrade(t))
                             ELSE trades_table
    /\ trades' = [trades EXCEPT ![req[t].uid] = Append(@, NewTrade(t))]
    /\ audit' = [audit EXCEPT ![req[t].uid] = Append(@, entry[t])]
    /\ next_tid' = next_tid + 1
    /\ pc' = [pc EXCEPT ![t] = "publish"]
    /\ UNCHANGED << use_aws, aux, users, users_by_email, portfolio, stocks, users_table,
                    portfolio_table, next_uid, locals, result, calls, wfail, entry, log >>

\* outcomes of self._sns.publish: TRUE, or FALSE for a BotoCoreError or ClientError
NotifyOutcomes == IF use_aws THEN {TRUE, FALSE} ELSE {TRUE}

\* what execute_trade gives its caller after _publish_trade_to_sns: the
\* except clause prints the error, and the Trade is returned either way
PublishResult(ok) == "ok"

\* _publish_trade_to_sns, the return of execute_trade and the answer of the route
publish(t) ==
    /\ pc[t] = "publish"
    /\ \E ok \in NotifyOutcomes : Finish(t, PublishResult(ok))
    /\ UNCHANGED << use_aws, aux, mem, store, stocks, next_uid, next_tid, req, calls,
                    faults, hist >>

\* ------------------------------------------- services/trade_service.py
\* prices get_stock_price can return
Quotes == {PriceAAPL, PriceGOOG}

\* LocalDB.create_user: a user that is not there gets INITIAL_BALANCE and an
\* empty portfolio
local_create_user ==
    /\ \E u \in UserIds :
          /\ ~db[u].present
          /\ db' = [db EXCEPT ![u] = LocalUser(InitialBalance, [s \in Symbols |-> 0])]
    /\ UNCHANGED << use_aws, mem, store, stocks, next_uid, next_tid, pc, locals, result,
                    calls, faults, hist, sres, view, signed, page >>

\* what buy_stock gives its caller after notifier.send: the call is not
\* guarded, an exception of send leaves buy_stock
SendResult(sent) == IF sent THEN "Trade successful" ELSE "notifier raised"

\* buy_stock(db, notifier, user_id, symbol, quantity)
buy_stock ==
    /\ calls < MaxCalls
    /\ calls' = calls + 1
    /\ \E u \in UserIds, symbol \in Symbols, quantity \in Quantities :
          /\ db[u].present
          /\ \/ sres' = "RuntimeError" /\ UNCHANGED db     \* get_stock_price raises
             \/ \E price \in Quotes, sent \in BOOLEAN :
                   LET cost == price * quantity
                   IN  IF db[u].balance < cost
                       THEN sres' = "Insufficient balance" /\ UNCHANGED db
                       ELSE /\ db' = [db EXCEPT
                                        ![u].balance = @ - cost,
                                        ![u].portfolio[symbol] = @ + quantity]
                            /\ sres' = SendResult(sent)
    /\ UNCHANGED << use_aws, mem, store, stocks, next_uid, next_tid, pc, locals, result,
                    faults, hist, view, signed, page >>

\* ------------------------------------------------------ the specifications
\* a lock of the account taken without a timeout: the steps of a call wait
\* while another thread is within a call for the same account
execute_trade_locked(t) ==
    /\ \A o \in Threads \ {t} : pc[o] \in {"idle", "off"} \/ req[o].uid # req[t].uid
    /\ \/ validate(t)
       \/ balance(t)
       \/ update_portfolio(t)
       \/ update_user(t)
       \/ save_trade(t)
       \/ publish(t)

\* the steps of execute_trade: no step waits for another thread
execute_trade(t) ==
    \/ validate(t)
    \/ balance(t)
    \/ update_portfolio(t)
    \/ update_user(t)
    \/ save_trade(t)
    \/ publish(t)

\* the process is started again while no request is being handled: app.py
\* builds a new AwsClient, whose maps are empty and whose prices are the
\* starting prices; the tables of the store are as they were
restart ==
    /\ \A t \in Threads : pc[t] \in {"idle", "off"}
    /\ users' = [u \in UserIds |-> NoUser]
    /\ users_by_email' = [e \in Emails |-> 0]
    /\ portfolio' = [u \in UserIds |-> [s \in AllSymbols |-> NoHolding]]
    /\ trades' = [u \in UserIds |-> << >>]
    /\ stocks' = [s \in Symbols |-> IF s = "AAPL" THEN PriceAAPL ELSE PriceGOOG]
    /\ UNCHANGED << use_aws, aux, store, next_uid, next_tid, pc, locals, result, calls,
                    faults, hist >>

Next ==
    \/ create_user
    \/ \E t \in Threads : api_orders(t)
    \/ \E t \in Threads : execute_trade(t)

NextEngine ==
    \/ create_user
    \/ \E t \in Threads : engine_call(t)
    \/ \E t \in Threads : execute_trade(t)

NextView ==
    \/ NextEngine
    \/ \E t \in Threads : api_portfolio(t)

NextRestart ==
    \/ Next
    \/ restart

NextService ==
    \/ Next
    \/ local_create_user
    \/ buy_stock

NextRead ==
    \/ Next
    \/ \E t \in Threads : api_portfolio(t)
    \/ \E t \in Threads : api_trades(t)
    \/ \E t \in Threads : admin_dashboard(t)

NextQuote ==
    \/ Next
    \/ \E t \in Threads : api_stock(t)
    \/ \E t \in Threads : api_stocks(t)

NextTrade ==
    \/ \E t \in Threads : api_orders(t)
    \/ \E t \in Threads : execute_trade(t)

NextSignup ==
    \/ \E t \in Threads : signup(t)
    \/ \E t \in Threads : api_orders(t)
    \/ \E t \in Threads : execute_trade(t)

\* the application under its threaded server
Spec == Init /\ [][Next]_vars

\* the application with requests arriving one at a time
SeqSpec == InitSeq /\ [][Next]_vars

\* AwsClient.execute_trade called directly, one call at a time
EngineSpec == InitSeq /\ [][NextEngine]_vars

\* every worker thread has one trade request to take
InitLive ==
    /\ InitMaps /\ calls = MaxCalls - Cardinality(Threads) /\ faults = 0
    /\ pc = [t \in Threads |-> "idle"]

\* the threaded server where thread t1 keeps running (the calls of boto3
\* return, with a result or with an error) and any other thread may stall
LiveSpec == InitLive /\ [][Next]_vars /\ WF_vars(execute_trade("t1"))

\* signups through the route around one trade request
SignupSpec == InitSteady /\ [][NextSignup]_vars

\* AwsClient called directly and the portfolio route, one call at a time
ViewSpec == InitSeq /\ [][NextView]_vars

\* the two trade paths, execute_trade and buy_stock, one call at a time
ServiceSpec == InitSeq /\ [][NextService]_vars

\* the account signup creates for the n-th email of the two
SignedUp(n) == IF n = 1 THEN << "a" >> ELSE << "b" >>

\* two signups have been answered "Signup successful! Welcome!": accounts 1
\* and 2 exist with the initial balance.  Every worker thread has one trade
\* request to take and one call to the store may raise: the other requests
\* and ClientErrors are counted as spent
InitPair ==
    /\ use_aws \in BOOLEAN
    /\ users = [u \in UserIds |-> IF ~use_aws /\ u <= 2
                                   THEN User(SignedUp(u), "pw", InitialBalance)
                                   ELSE NoUser]
    /\ users_by_email = [e \in Emails |-> IF use_aws THEN 0
                                           ELSE IF e = SignedUp(1) THEN 1 ELSE 2]
    /\ users_table = [e \in Emails |-> IF ~use_aws THEN NoItem
                                        ELSE UserItem(IF e = SignedUp(1) THEN 1 ELSE 2,
                                                      "pw", InitialBalance)]
    /\ next_uid = 2
    /\ signed = [n |-> 2, email |-> << >>, answer |-> "Signup successful! Welcome!"]
    /\ page = NoPage
    /\ portfolio = [u \in UserIds |-> [s \in AllSymbols |-> NoHolding]]
    /\ trades = [u \in UserIds |-> << >>]
    /\ stocks = [s \in Symbols |-> IF s = "AAPL" THEN PriceAAPL ELSE PriceGOOG]
    /\ portfolio_table = [k \in UserIds \X AllSymbols |-> NoHolding]
    /\ trades_table = << >>
    /\ next_tid = 0
    /\ req = [t \in Threads |-> NoReq]
    /\ luser = [t \in Threads |-> NoUser]
    /\ existing = [t \in Threads |-> NoHolding]
    /\ holding = [t \in Threads |-> NoHolding]
    /\ result = [t \in Threads |-> ""]
    /\ wfail = [t \in Threads |-> FALSE]
    /\ entry = [t \in Threads |-> 0]
    /\ audit = [u \in UserIds |-> << >>]
    /\ log = << >>
    /\ db = [u \in UserIds |-> NoLocalUser]
    /\ sres = ""
    /\ view = [s \in AllSymbols |-> NoRow]
    /\ calls = MaxCalls - Cardinality(Threads)
    /\ faults = MaxFaults - 1
    /\ pc = [t \in Threads |-> "idle"]

\* the threaded server taking trade requests of the two accounts
PairSpec == InitPair /\ [][NextTrade]_vars

\* the record of the first trade of the account: BUY QtyUnit GOOG at 135.00
FirstBuy == Trade(1, 1, "GOOG", "BUY", QtyUnit, PriceGOOG, PriceGOOG * QtyUnit, 1)

\* one signup and one accepted BUY of QtyUnit GOOG at 135.00 have been
\* answered, with no ClientError: account 1 holds a position.  Requests
\* arrive one at a time; the trade requests and ClientErrors counted are
\* those that follow
InitHeld ==
    /\ use_aws \in BOOLEAN
    /\ users = [u \in UserIds |->
                   IF u = 1 THEN User(<< "a" >>, "pw", InitialBalance - FirstBuy.amount)
                   ELSE NoUser]
    /\ users_by_email = [e \in Emails |-> IF e = << "a" >> THEN 1 ELSE 0]
    /\ users_table = [e \in Emails |->
                         IF use_aws /\ e = << "a" >>
                         THEN UserItem(1, "pw", InitialBalance - FirstBuy.amount)
                         ELSE NoItem]
    /\ next_uid = 1
    /\ portfolio = [u \in UserIds |-> [s \in AllSymbols |->
                       IF u = 1 /\ s = "GOOG" THEN Holding(QtyUnit, PriceGOOG)
                       ELSE NoHolding]]
    /\ portfolio_table = [k \in UserIds \X AllSymbols |->
                             IF use_aws /\ k = << 1, "GOOG" >>
                             THEN Holding(QtyUnit, PriceGOOG) ELSE NoHolding]
    /\ trades = [u \in UserIds |-> IF u = 1 THEN << FirstBuy >> ELSE << >>]
    /\ trades_table = IF use_aws THEN << FirstBuy >> ELSE << >>
    /\ next_tid = 1
    /\ stocks = [s \in Symbols |-> IF s = "AAPL" THEN PriceAAPL ELSE PriceGOOG]
    /\ req = [t \in Threads |-> IF t = "t1" THEN Req(1, "GOOG", "BUY", QtyUnit, PriceGOOG)
                                 ELSE NoReq]
    /\ luser = [t \in Threads |-> NoUser]
    /\ existing = [t \in Threads |-> NoHolding]
    /\ holding = [t \in Threads |-> NoHolding]
    /\ result = [t \in Threads |-> IF t = "t1" THEN "ok" ELSE ""]
    /\ wfail = [t \in Threads |-> FALSE]
    /\ entry = [t \in Threads |-> IF t = "t1" THEN InitialBalance ELSE 0]
    /\ audit = [u \in UserIds |-> IF u = 1 THEN << InitialBalance >> ELSE << >>]
    /\ log = << Req(1, "GOOG", "BUY", QtyUnit, PriceGOOG) >>
    /\ db = [u \in UserIds |-> NoLocalUser]
    /\ sres = ""
    /\ view = [s \in AllSymbols |-> NoRow]
    /\ signed = [n |-> 0, email |-> << >>, answer |-> ""]
    /\ page = NoPage
    /\ calls = 0
    /\ faults = 0
    /\ pc = [t \in Threads |-> IF t = "t1" THEN "idle" ELSE "off"]

\* requests arrive one at a time; two requests that trade or move the
\* prices are followed and one call to the store may raise, the others are
\* counted as spent
InitRead ==
    /\ InitMaps /\ calls = MaxCalls - 2 /\ faults = MaxFaults - 1
    /\ pc = [t \in Threads |-> IF t = "t1" THEN "idle" ELSE "off"]

\* the trade route and the read routes, one call at a time, the read routes
\* as often as they are asked for
ReadSpec == InitRead /\ [][NextRead]_vars

\* the quote routes have been read until every price has fallen to 2.00, one
\* step of the walk above the floor; there is no account yet.  Requests
\* arrive one at a time, two trade requests are followed and one call to the
\* store may raise: the others are counted as spent
InitQuote ==
    /\ InitRest
    /\ stocks = [s \in Symbols |-> PriceFloor + MaxDelta]
    /\ calls = MaxCalls - 2 /\ faults = MaxFaults - 1
    /\ pc = [t \in Threads |-> IF t = "t1" THEN "idle" ELSE "off"]

\* the quote routes and the trade route at low prices, one call at a time
QuoteSpec == InitQuote /\ [][NextQuote]_vars

\* trade requests of an account that holds a position, one at a time
HeldSpec == InitHeld /\ [][NextTrade]_vars

\* the application with requests arriving one at a time, started again at
\* any time between two requests
RestartSpec == InitSeq /\ [][NextRestart]_vars

\* ------------------------------------------------------- what callers see
Idle == \A t \in Threads : pc[t] \in {"idle", "off"}

Accounts == {u \in UserIds : get_user_by_id(u).present}

\* the balance get_user_by_id returns
ObsCash(u) == get_user_by_id(u).cash_balance

\* the records get_trades returns (in the order they were written)
Ledger(u) == IF use_aws THEN TableTrades(u) ELSE trades[u]

RECURSIVE SumAmounts(_, _)
SumAmounts(ts, side) ==
    IF ts = << >> THEN 0
    ELSE (IF Head(ts).side = side THEN Head(ts).amount ELSE 0) + SumAmounts(Tail(ts), side)

\* one trade executed alone on a balance and holdings: the steps of
\* execute_trade run to the end with nothing in between and no ClientError
SeqTrade(st, r) ==
    LET amt == r.price * r.qty
        h == st.hold[r.symbol]
    IN  IF r.side = "BUY"
        THEN IF st.cash < amt THEN st
             ELSE [cash |-> st.cash - amt,
                   hold |-> [st.hold EXCEPT ![r.symbol] = BuyHolding(h, r.qty, r.price)]]
        ELSE IF ~h.present \/ h.quantity < r.qty THEN st
             ELSE [cash |-> st.cash + amt,
                   hold |-> [st.hold EXCEPT ![r.symbol] = SellHolding(h, r.qty)]]

RECURSIVE SeqRun(_, _, _, _)
SeqRun(st, rs, order, i) ==
    IF i > Len(rs) THEN st
    ELSE SeqRun(SeqTrade(st, rs[order[i]]), rs, order, i + 1)

Orders(n) == {f \in [1..n -> 1..n] : \A i, j \in 1..n : f[i] = f[j] => i = j}

CallsOf(u) == SelectSeq(log, LAMBDA r : r.uid = u)

NewAccount == [cash |-> InitialBalance, hold |-> [s \in AllSymbols |-> NoHolding]]

Serial(u) ==
    \E order \in Orders(Len(CallsOf(u))) :
        SeqRun(NewAccount, CallsOf(u), order, 1)
            = [cash |-> ObsCash(u), hold |-> get_portfolio(u)]

\* ------------------------------------------------------------- the claims

\* C1: when trades of one account have run at the same time and every call to
\* the store succeeded, the balance and the holdings of the account are those
\* of the same trades executed one after the other in some order.
C1_Serializable ==
    (Idle /\ faults = 0) => \A u \in Accounts : Serial(u)

\* C2: with positive quantities and prices and calls made one at a time, no
\* cash_balance is ever negative: not in the map, not in the table, not in
\* the User object of the handler.
C2_CashNonNegative ==
    /\ \A u \in UserIds : users[u].cash_balance >= 0
    /\ \A e \in Emails : users_table[e].cash_balance >= 0
    /\ \A t \in Threads : luser[t].cash_balance >= 0

C2_Witness ==
    \E t \in Threads, u \in UserIds :
        /\ pc[t] = "idle" /\ result[t] = "Insufficient cash balance"
        /\ Len(trades[u]) > 0 /\ ObsCash(u) < InitialBalance

\* C3: every Holding stored, in the portfolio map or in the portfolio table,
\* has quantity > 0; a SELL of the whole position deletes the Holding.
C3_HoldingsPositive ==
    /\ \A u \in UserIds, s \in Symbols :
          /\ portfolio[u][s].present => portfolio[u][s].quantity > 0
          /\ portfolio_table[<<u, s>>].present => portfolio_table[<<u, s>>].quantity > 0

C3_Witness ==
    \E u \in UserIds :
        /\ Idle /\ Len(trades[u]) = 2
        /\ trades[u][2].side = "SELL"
        /\ trades[u][1].symbol = trades[u][2].symbol
        /\ trades[u][1].quantity = trades[u][2].quantity
        /\ ~portfolio[u][trades[u][2].symbol].present
        /\ ~portfolio_table[<<u, trades[u][2].symbol>>].present

Untouched == UNCHANGED << users, users_by_email, portfolio, trades, users_table,
                          portfolio_table, trades_table >>

\* C4: a BUY whose amount exceeds the balance ends with the insufficient-funds
\* error, and that step changes no balance, no holding and no ledger.
C4_BuyRejected ==
    [][\A t \in Threads :
          (/\ pc[t] = "validate" /\ pc'[t] # "validate"
           /\ req[t].side = "BUY" /\ Amount(t) > UserCash(t))
          => (/\ pc'[t] = "idle"
              /\ result'[t] = "Insufficient cash balance"
              /\ Untouched)]_vars

C4_Witness ==
    \E t \in Threads :
        /\ pc[t] = "idle" /\ result[t] = "Insufficient cash balance"
        /\ req[t].side = "BUY" /\ req[t].price * req[t].qty > ObsCash(req[t].uid)

\* C5: a SELL of a symbol the account's portfolio map holds no Holding of, or
\* of more than it holds, ends with the insufficient-holdings error, and that
\* step changes no balance, no holding and no ledger.
C5_SellRejected ==
    [][\A t \in Threads :
          (/\ pc[t] = "validate" /\ pc'[t] # "validate"
           /\ req[t].side = "SELL"
           /\ \/ ~portfolio[req[t].uid][req[t].symbol].present
              \/ req[t].qty > portfolio[req[t].uid][req[t].symbol].quantity)
          => (/\ pc'[t] = "idle"
              /\ result'[t] = "Insufficient holdings"
              /\ Untouched)]_vars

C5_Witness ==
    \E t \in Threads :
        /\ pc[t] = "idle" /\ result[t] = "Insufficient holdings"
        /\ req[t].side = "SELL"
        /\ portfolio[req[t].uid][req[t].symbol].present
        /\ req[t].qty > portfolio[req[t].uid][req[t].symbol].quantity

\* C6: execute_trade called with a quantity <= 0 or with a side other than
\* BUY and SELL goes no further than its validation and does not return a Trade.
C6_InvalidRejected ==
    \A t \in Threads :
        (req[t] # NoReq /\ (req[t].qty <= 0 \/ req[t].side \notin {"BUY", "SELL"}))
        => /\ pc[t] \in {"validate", "idle"}
           /\ pc[t] = "idle" => result[t] \notin {"ok", "ZeroDivisionError"}

\* the records of one symbol in the list of a user's trades
TradesIn(u, s) == SelectSeq(trades[u], LAMBDA t : t.symbol = s)

\* a is n / d rounded to the nearest cent
Nearest(a, n, d) == 2 * Abs(a * d - n) <= d

\* a first BUY of q1 at p1 and a second BUY of q2 at p2 of a symbol leave one
\* Holding of quantity q1 + q2 and of the rounded weighted average
TwoBuys ==
    \A u \in UserIds, s \in Symbols :
        LET ts == TradesIn(u, s)
            h == portfolio[u][s]
        IN  (Idle /\ Len(ts) = 2 /\ ts[1].side = "BUY" /\ ts[2].side = "BUY")
            => /\ h.present
               /\ h.quantity = ts[1].quantity + ts[2].quantity
               /\ Nearest(h.avg_buy_price,
                          ts[1].quantity * ts[1].price + ts[2].quantity * ts[2].price,
                          ts[1].quantity + ts[2].quantity)

\* the Holding a BUY is about to write onto an existing Holding
EachBuy ==
    \A t \in Threads :
        (pc[t] = "update_portfolio" /\ req[t].side = "BUY" /\ existing[t].present)
        => /\ holding[t].present
           /\ holding[t].quantity = existing[t].quantity + req[t].qty
           /\ Nearest(holding[t].avg_buy_price,
                      existing[t].quantity * existing[t].avg_buy_price + Amount(t),
                      holding[t].quantity)

\* C7: with calls made one at a time, a first BUY of q1 at p1 and a second BUY
\* of q2 at p2 of a symbol leave, in the portfolio map, one Holding of quantity
\* q1 + q2 whose avg_buy_price is (q1 * p1 + q2 * p2) / (q1 + q2) rounded to
\* the cent; and every BUY onto an existing Holding writes the average
\* (old.quantity * old.avg_buy_price + amount) / new_quantity rounded to the cent.
C7_AverageCost == TwoBuys /\ EachBuy

C7_Witness ==
    \E u \in UserIds, s \in Symbols :
        LET ts == TradesIn(u, s)
        IN  /\ Idle /\ Len(ts) = 2 /\ ts[1].side = "BUY" /\ ts[2].side = "BUY"
            /\ ts[1].quantity # ts[2].quantity /\ ts[1].price # ts[2].price
            /\ (ts[1].quantity * ts[1].price + ts[2].quantity * ts[2].price)
                  % (ts[1].quantity + ts[2].quantity) # 0
            /\ portfolio[u][s].quantity = ts[1].quantity + ts[2].quantity

\* C8: with calls made one at a time, after a BUY of q shares of X at price p
\* and then a SELL of q shares of X at the same price the balance is the one
\* the BUY began with, and no Holding of X is left.
C8_RoundTrip ==
    \A u \in Accounts :
        LET n == Len(trades[u])
        IN  (/\ Idle /\ n >= 2
             /\ trades[u][n - 1].side = "BUY" /\ trades[u][n].side = "SELL"
             /\ trades[u][n - 1].symbol = trades[u][n].symbol
             /\ trades[u][n - 1].quantity = trades[u][n].quantity
             /\ trades[u][n - 1].price = trades[u][n].price)
            => /\ ObsCash(u) = audit[u][n - 1]
               /\ ~get_portfolio(u)[trades[u][n].symbol].present

\* C9: when no call is under way, the balance of every account is the initial
\* balance minus the amounts of its BUY records plus the amounts of its SELL
\* records, and the amount of every record is price x quantity.
C9_CashFromLedger ==
    Idle => \A u \in Accounts :
               /\ ObsCash(u) = InitialBalance - SumAmounts(Ledger(u), "BUY")
                                              + SumAmounts(Ledger(u), "SELL")
               /\ \A i \in 1..Len(Ledger(u)) :
                     Ledger(u)[i].amount = Ledger(u)[i].price * Ledger(u)[i].quantity

\* C10: a call in which the write of the balance or of the holding to the
\* store failed does not go on to record the trade and does not return a Trade.
C10_WriteFailureAborts ==
    \A t \in Threads :
        wfail[t] => /\ pc[t] \notin {"save_trade", "publish"}
                    /\ pc[t] = "idle" => result[t] # "ok"

\* C11: a failure of the notifier never fails a trade.  The step of
\* execute_trade that publishes to SNS ends with the Trade returned and with
\* balance, holdings and ledger as they were before the publish; and a call
\* of buy_stock that changed the balance and the portfolio of a user gives
\* its caller the successful result, whether notifier.send raises or not.
C11_NotifierNeverFails ==
    [][/\ \A t \in Threads :
             (pc[t] = "publish" /\ pc'[t] # "publish")
             => (pc'[t] = "idle" /\ result'[t] = "ok" /\ Untouched)
       /\ (\E u \in UserIds : db[u].present /\ db'[u] # db[u])
             => sres' = "Trade successful"]_vars

IsPrefix(a, b) == Len(a) <= Len(b) /\ SubSeq(b, 1, Len(a)) = a

\* the step of thread t that leaves the ledger write of its call behind
Appends(t) == pc[t] = "save_trade" /\ pc'[t] # "save_trade"

\* C12: the ledger get_trades reads is append-only.  The ledger write of an
\* accepted call appends exactly one record, with the call's user, symbol,
\* side, quantity and price and with amount = price x quantity; no other step
\* (a rejection among them) changes any ledger; and every ledger after a step
\* extends the ledger before it.
C12_AppendOnly ==
    [][/\ \A u \in UserIds : IsPrefix(Ledger(u), Ledger(u)')
       /\ \A t \in Threads :
             Appends(t)
             => /\ Ledger(req[t].uid)' = Append(Ledger(req[t].uid), NewTrade(t))
                /\ NewTrade(t).amount = req[t].price * req[t].qty
                /\ \A u \in UserIds \ {req[t].uid} : Ledger(u)' = Ledger(u)
       /\ (\A t \in Threads : ~Appends(t))
             => \A u \in UserIds : Ledger(u)' = Ledger(u)]_vars

\* most recent first
Descending(ts) == \A i, j \in 1..Len(ts) : i < j => ts[i].timestamp > ts[j].timestamp

\* C13: whatever trades have been accepted, get_trades returns the trades of
\* a user most recent first, in memory and with the durable store.
C13_NewestFirst ==
    \A u \in UserIds : \A ok \in ReadOutcomes : Descending(get_trades(u, ok))

\* thread t is past the change of the balance of an accepted call
Committing(t) == pc[t] \in {"update_portfolio", "update_user", "save_trade", "publish"}

\* a reader (get_user_by_id) finds the balance of the account changed
CashSeen(t) == ObsCash(req[t].uid) # entry[t]

\* a reader (get_portfolio) finds the Holding the call writes
HoldingSeen(t) == get_portfolio(req[t].uid)[req[t].symbol] = holding[t]

\* C14: while one trade of an account is under way, with no other trade of
\* the account and no failure of the store, what readers get is at every
\* moment either the balance and the holding from before the trade or the
\* balance and the holding the trade writes, never one without the other.
C14_AtomicToReaders ==
    \A t \in Threads :
        (/\ Committing(t) /\ faults = 0
         /\ \A o \in Threads \ {t} : pc[o] \in {"idle", "off"})
        => (CashSeen(t) <=> HoldingSeen(t))

\* an email case-folded and trimmed
Fold(e) == Strip(Lower(e))

\* the emails of the accounts
AccountEmails == {get_user_by_id(u).email : u \in Accounts}

\* no two accounts have the same case-folded, trimmed email
OnePerEmail ==
    \A u, v \in Accounts :
        Fold(get_user_by_id(u).email) = Fold(get_user_by_id(v).email) => u = v

\* what callers see of account u
Seen(u) == << get_user_by_id(u), get_portfolio(u), Ledger(u) >>

\* a signup that is refused leaves every account as it is and is refused for
\* an email that has an account; a signup that succeeds makes one new account,
\* of an email no account had, with the initial balance, no holdings and no
\* trades, and leaves the others as they are
SignupStep ==
    [][signed'.n # signed.n =>
         IF signed'.answer = "User already exists"
         THEN /\ \A u \in UserIds : Seen(u)' = Seen(u)
              /\ \E e \in AccountEmails : Fold(e) = Fold(signed'.email)
         ELSE \E u \in UserIds :
                  /\ u = next_uid + 1
                  /\ u \notin Accounts /\ get_user_by_id(u)'.present
                  /\ \A e \in AccountEmails : Fold(e) # Fold(get_user_by_id(u)'.email)
                  /\ get_user_by_id(u)'.cash_balance = InitialBalance
                  /\ \A s \in AllSymbols : ~get_portfolio(u)'[s].present
                  /\ Ledger(u)' = << >>
                  /\ \A v \in UserIds \ {u} : Seen(v)' = Seen(v)]_vars

\* C15: with requests handled one at a time, there is at most one account per
\* case-folded, trimmed email; a signup for an email that has an account, in
\* any letter case, is refused with "User already exists" and changes no
\* account; a signup that succeeds creates an account with the initial
\* balance and no holdings or trades.
C15_OneAccountPerEmail == []OnePerEmail /\ SignupStep

C15_Witness ==
    /\ signed.answer = "User already exists"
    /\ \E u \in Accounts :
          /\ get_user_by_id(u).email # signed.email
          /\ Fold(signed.email) = get_user_by_id(u).email
          /\ ObsCash(u) < InitialBalance

\* the trade_id of the call thread t made last, with calls one at a time
CallId(t) == IF pc[t] \in {"publish", "idle"} THEN next_tid ELSE next_tid + 1

\* the ledger get_trades reads has the record of the call thread t made last
Recorded(t) ==
    \E i \in 1..Len(Ledger(req[t].uid)) : Ledger(req[t].uid)[i].trade_id = CallId(t)

\* readers find the balance and the holding the call of thread t writes
Mutated(t) ==
    /\ ObsCash(req[t].uid) = IF req[t].side = "BUY" THEN entry[t] - Amount(t)
                                                    ELSE entry[t] + Amount(t)
    /\ HoldingSeen(t)

\* C16: with calls made one at a time, the steps of an accepted call come in
\* the order balance and holding, ledger record, notifier.  When the notifier
\* is invoked the record is in the ledger; whenever the record is in the
\* ledger, readers find the balance and the holding of the call; the balance
\* and the holding of a call are found without its record only between the
\* commit and the append, and not once the call has returned its Trade.
C16_CommitThenAppend ==
    \A t \in Threads :
        /\ pc[t] = "publish" => (Recorded(t) /\ trades[req[t].uid] # << >>)
        /\ (Committing(t) /\ Recorded(t)) => Mutated(t)
        /\ (Committing(t) /\ Mutated(t) /\ ~Recorded(t))
              => pc[t] \in {"update_user", "save_trade"}
        /\ (pc[t] = "idle" /\ result[t] = "ok") => Recorded(t)

\* the price of a symbol known last: that of its quote, or without a quote
\* that of the last call of execute_trade for the symbol
LastKnown(symbol) ==
    IF symbol \in Symbols THEN stocks[symbol]
    ELSE LET ps == SelectSeq(log, LAMBDA r : r.symbol = symbol)
         IN  IF ps = << >> THEN 0 ELSE ps[Len(ps)].price

\* C17: every row /api/portfolio answers with for a Holding of positive
\* quantity has market_value = quantity x current_price and unrealized_pl =
\* market_value - quantity x avg_buy_price, and its current_price is the
\* price of the symbol known last, also when the symbol has no quote.
C17_Valuation ==
    [][view' # view =>
         \A s \in AllSymbols :
            (view'[s].present /\ view'[s].quantity > 0)
            => /\ view'[s].market_value = view'[s].quantity * view'[s].current_price
               /\ view'[s].unrealized_pl =
                     view'[s].market_value - view'[s].quantity * view'[s].avg_buy_price
               /\ view'[s].current_price = LastKnown(s)']_vars

\* C18: a call of execute_trade waits for no other call: whatever another
\* thread does within a trade of the same account, also if it never takes
\* another step, the call of a thread that keeps running returns, with its
\* Trade or with an error.
C18_NoIndefiniteWait ==
    (pc["t1"] # "idle") ~> (pc["t1"] = "idle")

C18_Witness ==
    /\ Len(log) = 2 /\ log[1] = req["t2"] /\ log[2] = req["t1"]
    /\ req["t1"].uid = req["t2"].uid /\ req["t1"].symbol = req["t2"].symbol
    /\ pc["t2"] = "update_portfolio"
    /\ pc["t1"] = "idle" /\ result["t1"] = "ok"

\* the step of thread t from position p of a SELL of less than the map holds
SellStep(t, p) ==
    /\ pc[t] = p /\ pc'[t] # p /\ req[t].side = "SELL"
    /\ portfolio[req[t].uid][req[t].symbol].quantity > req[t].qty

\* C19: an accepted SELL that leaves shares replaces the Holding execute_trade
\* read by a Holding of the quantity less the quantity sold and of the same
\* avg_buy_price, writes that Holding or nothing to the portfolio table,
\* changes no other Holding, and adds price x quantity to the balance of the
\* User object.
C19_SellKeepsAverage ==
    [][\A t \in Threads :
          LET u == req[t].uid
              s == req[t].symbol
              old == portfolio[u][s]
              item == portfolio_table[<<u, s>>]
          IN  /\ SellStep(t, "balance")
                    => UserCash(t)' = UserCash(t) + req[t].price * req[t].qty
              /\ SellStep(t, "update_portfolio")
                    => /\ portfolio'[u][s] = Holding(old.quantity - req[t].qty,
                                                     old.avg_buy_price)
                       /\ \A v \in UserIds, x \in AllSymbols :
                             <<v, x>> # <<u, s>> =>
                                /\ portfolio'[v][x] = portfolio[v][x]
                                /\ portfolio_table'[<<v, x>>] = portfolio_table[<<v, x>>]
                       /\ portfolio_table'[<<u, s>>] \in {item, portfolio'[u][s]}]_vars

C19_Witness ==
    \E u \in UserIds :
        /\ Idle /\ Len(trades[u]) = 2
        /\ trades[u][1].side = "BUY" /\ trades[u][2].side = "SELL"
        /\ trades[u][1].symbol = trades[u][2].symbol
        /\ trades[u][1].quantity > trades[u][2].quantity
        /\ trades[u][1].price # trades[u][2].price
        /\ portfolio[u][trades[u][1].symbol]
              = Holding(trades[u][1].quantity - trades[u][2].quantity, trades[u][1].price)

\* the holdings of the portfolio map are the holdings get_portfolio returns,
\* and the balance of the User in the map, if the map has the user, is the
\* balance get_user_by_id returns
MirrorAgrees(u) ==
    /\ portfolio[u] = get_portfolio(u)
    /\ users[u].present => users[u].cash_balance = ObsCash(u)

\* C20: if use_aws, whenever a call of execute_trade returns, accepted or
\* rejected, the map and the store agree on the holdings and the balance of
\* the user of the call.
C20_MirrorEqualsStore ==
    [][use_aws =>
          \A t \in Threads, u \in UserIds :
             (pc[t] \notin {"idle", "off"} /\ pc'[t] = "idle" /\ u = req[t].uid)
                => MirrorAgrees(u)']_vars

\* thread t takes a step of a trade request: the call of execute_trade by
\* the route, or a step within execute_trade
TradeStep(t) == pc'[t] # pc[t]

\* the account and the symbol of the trade thread t takes a step of
TradeUser(t) == IF pc[t] = "idle" THEN req'[t].uid ELSE req[t].uid
TradeSymbol(t) == IF pc[t] = "idle" THEN req'[t].symbol ELSE req[t].symbol

\* the step leaves the balance, the holdings and the ledger of account v as
\* they were, in the maps and in the store
AccountKept(v) ==
    /\ users'[v] = users[v]
    /\ ObsCash(v)' = ObsCash(v)
    /\ portfolio'[v] = portfolio[v]
    /\ get_portfolio(v)' = get_portfolio(v)
    /\ trades'[v] = trades[v]
    /\ Ledger(v)' = Ledger(v)

\* the step leaves the Holding of account v in symbol x as it was
HoldingKept(v, x) ==
    /\ portfolio'[v][x] = portfolio[v][x]
    /\ portfolio_table'[<<v, x>>] = portfolio_table[<<v, x>>]

\* C21: every step of a trade of account A on symbol X, accepted or
\* rejected, with or without a failed write and whatever the other threads
\* are doing, leaves unchanged the balance, holdings and ledger of every
\* other account and the Holding of A in every symbol other than X.
C21_OtherAccountsUntouched ==
    [][\A t \in Threads, v \in UserIds, x \in AllSymbols :
          TradeStep(t) =>
             /\ v # TradeUser(t) => AccountKept(v)
             /\ (v = TradeUser(t) /\ x # TradeSymbol(t)) => HoldingKept(v, x)]_vars

\* trades of the two accounts are under way at once, and each has written
\* the Holding of its account while the other was under way
C21_Witness ==
    /\ pc["t1"] = "save_trade" /\ pc["t2"] = "update_user"
    /\ req["t1"].uid # req["t2"].uid
    /\ portfolio[req["t1"].uid][req["t1"].symbol].present
    /\ portfolio[req["t2"].uid][req["t2"].symbol].present

\* the sum of the quantities of the records of a symbol and a side
RECURSIVE SumQuantities(_, _, _)
SumQuantities(ts, symbol, side) ==
    IF ts = << >> THEN 0
    ELSE (IF Head(ts).symbol = symbol /\ Head(ts).side = side THEN Head(ts).quantity ELSE 0)
         + SumQuantities(Tail(ts), symbol, side)

\* the quantity get_portfolio returns for the symbol, 0 without a Holding
HeldQuantity(u, symbol) ==
    IF get_portfolio(u)[symbol].present THEN get_portfolio(u)[symbol].quantity ELSE 0

\* C22: when no call is under way, the quantity every account holds of every
\* symbol is the sum of the quantities of its BUY records of the symbol in
\* the ledger minus the sum of the quantities of its SELL records.
C22_QuantityFromLedger ==
    Idle => \A u \in Accounts, symbol \in Symbols :
               HeldQuantity(u, symbol) = SumQuantities(Ledger(u), symbol, "BUY")
                                         - SumQuantities(Ledger(u), symbol, "SELL")

\* account u has made three trades and no more, all of symbol s: a BUY, then
\* a BUY of q at p and a SELL of q at p, and no call is under way
RoundTrip(u, s) ==
    LET ts == trades[u]
    IN  /\ Idle /\ Len(ts) = 3
        /\ \A i \in 1..3 : ts[i].symbol = s
        /\ ts[1].side = "BUY" /\ ts[2].side = "BUY" /\ ts[3].side = "SELL"
        /\ ts[2].quantity = ts[3].quantity /\ ts[2].price = ts[3].price

ReadStep ==
    \E t \in Threads : api_portfolio(t) \/ api_trades(t) \/ admin_dashboard(t)

\* C24: a call of a read route, in whatever state and after whatever other
\* reads, with or without a ClientError of its query, leaves the User, the
\* balance, the holdings and the ledger of every account as they were, in
\* the maps and in the store.
C24_ReadsChangeNothing ==
    [][ReadStep => \A u \in UserIds : AccountKept(u)]_vars

\* the three read routes have answered for an account that has traded: the
\* dashboard lists the account and its trade, the portfolio its holding
C24_Witness ==
    /\ page.route = "/admin/dashboard"
    /\ Len(page.users) > 0 /\ Len(page.trades) > 0
    /\ \E s \in Symbols : view[s].present
    /\ \E u \in Accounts : Ledger(u) # << >>

\* C25: after any sequence of reads of the quotes the price of every listed
\* symbol is at least the floor of 1.00, hence above 0, and so is every price
\* api_orders has passed to execute_trade.
C25_PricesPositive ==
    /\ \A s \in Symbols : stocks[s] >= PriceFloor /\ stocks[s] > 0
    /\ \A i \in 1..Len(log) : log[i].price >= PriceFloor /\ log[i].price > 0

\* two trades of a symbol in a row were passed the price of the floor, and
\* the price is still at the floor
C25_Witness ==
    /\ Len(log) = 2
    /\ log[1].symbol = log[2].symbol
    /\ log[1].price = PriceFloor /\ log[2].price = PriceFloor
    /\ stocks[log[2].symbol] = PriceFloor

====
